---- MODULE Spec2Model ----
(***************************************************************************)
(* Model of the two mock LLM servers of this repository:                   *)
(*   src/demo_10_1_OllamaCompatibleServer.py  (line-delimited JSON)        *)
(*   src/demo_10_2_OpenAICompatibleServer.py  (event stream, "data: ...")  *)
(* One request is followed from its arrival to the handler's return.  A    *)
(* step of the model is the code a handler runs between two awaits.        *)
(*                                                                         *)
(* Text is a sequence of characters.  A literal of the source that holds   *)
(* neither whitespace nor the full stop U+3002 is written as one atom.     *)
(***************************************************************************)
EXTENDS Integers, Sequences, FiniteSets, TLC

VARIABLES
    handler,   \* the handler the dispatcher chose, "none" before a request
    body,      \* the raw request body
    pc,        \* the await the handler is suspended at
    locals,    \* the handler's local variables
    i,         \* index of the loop over words / sentences / steps
    tailPos,   \* position in the statements that follow the loop
    pending,   \* the frame handed to response.write, not yet written
    log,       \* what was done to the StreamResponse, in order
    result,    \* what the handler returned or raised
    clock,     \* time elapsed, in units of 50 ms
    uuids,     \* number of uuid.uuid4() calls so far
    models,    \* self.models of the two servers
    random,    \* the state of the process-wide generator of module random
    client     \* the generator stream_ollama and what its consumer got from it

vars == <<handler, body, pc, locals, i, tailPos, pending, log, result, clock, uuids,
          models, random, client>>

----------------------------------------------------------------------------
(* Bounds of the inputs *)

MaxLen == 2      \* longest prompt drawn from Alphabet
MaxMsgs == 2     \* longest messages list

(* Program constants *)

PrefixLen == 50  \* prompt[:50], last_message[:50]

FullStop == "<U+3002>"   \* the sentence terminator of the chat replies
Space == " "
Alphabet == {"a", Space, FullStop}

----------------------------------------------------------------------------
(* Python values carried by a request *)

Str(s) == [t |-> "str", s |-> s]
IntV == [t |-> "int", s |-> <<>>]                \* a JSON number, e.g. 5
ListV == [t |-> "list", s |-> <<>>]              \* the JSON list ["a"]
ListRepr == <<"['a']">>                          \* what an f-string makes of it

Min(a, b) == IF a < b THEN a ELSE b

RECURSIVE Flatten(_)
Flatten(ss) == IF ss = <<>> THEN <<>> ELSE Head(ss) \o Flatten(Tail(ss))

(* str.split(): the maximal runs of non-whitespace characters *)
RECURSIVE SplitWs(_, _)
SplitWs(s, cur) ==
    IF s = <<>> THEN (IF cur = <<>> THEN <<>> ELSE <<cur>>)
    ELSE IF Head(s) = Space
         THEN (IF cur = <<>> THEN <<>> ELSE <<cur>>) \o SplitWs(Tail(s), <<>>)
         ELSE SplitWs(Tail(s), Append(cur, Head(s)))

Split(s) == SplitWs(s, <<>>)

(* str.split(sep): every piece between separators, empty pieces included *)
RECURSIVE SplitSep(_, _, _)
SplitSep(s, sep, cur) ==
    IF s = <<>> THEN <<cur>>
    ELSE IF Head(s) = sep
         THEN <<cur>> \o SplitSep(Tail(s), sep, <<>>)
         ELSE SplitSep(Tail(s), sep, Append(cur, Head(s)))

SplitOn(s, sep) == SplitSep(s, sep, <<>>)

(* str.strip(): leading and trailing whitespace removed *)
RECURSIVE LStrip(_)
LStrip(s) == IF s # <<>> /\ Head(s) = Space THEN LStrip(Tail(s)) ELSE s

RECURSIVE RStrip(_)
RStrip(s) ==
    IF s # <<>> /\ s[Len(s)] = Space THEN RStrip(SubSeq(s, 1, Len(s) - 1)) ELSE s

Strip(s) == RStrip(LStrip(s))

(* v[:50] and its rendering inside an f-string; an int is not subscriptable *)
SliceRaises(v) == v.t = "int"
(* A slice that keeps one character only *)
Slice50_first_character(v) ==
    IF v.t = "str" THEN SubSeq(v.s, 1, Min(1, Len(v.s))) ELSE ListRepr
Slice50(v) ==
    IF v.t = "str" THEN SubSeq(v.s, 1, Min(PrefixLen, Len(v.s))) ELSE ListRepr

(* v.split() exists on str only *)
SplitRaises(v) == v.t # "str"

(* dict.get(key, default) *)
Get(d, k, default) == IF k \in DOMAIN d THEN d[k] ELSE default

----------------------------------------------------------------------------
(* Clock and identifiers *)

ArrivalTimes == {0, 18}                    \* when the request arrives, in ticks
Now(t) == <<t, "Z">>                       \* datetime.now().isoformat() + "Z"
UnixTime(t) == t \div 20                   \* int(time.time()): 20 ticks a second
Uuid4Hex(n) == <<"uuid4", n>>              \* the n-th uuid.uuid4().hex, fresh each call

----------------------------------------------------------------------------
(* The two protocol framings *)

(* json.dumps(obj).encode('utf-8') + b'\n' *)
LineFrame(obj) ==
    [prefix |-> "", payload |-> [kind |-> "json", obj |-> obj], suffix |-> "\n"]

(* f"data: {json.dumps(obj)}\n\n".encode('utf-8') *)
EventFrame(obj) ==
    [prefix |-> "data: ", payload |-> [kind |-> "json", obj |-> obj], suffix |-> "\n\n"]

(* b"data: [DONE]\n\n" *)
SentinelFrame ==
    [prefix |-> "data: ", payload |-> [kind |-> "literal", text |-> "[DONE]"],
     suffix |-> "\n\n"]

----------------------------------------------------------------------------
(* OllamaCompatibleServer.handle_generate *)

(* f"[ji yu ni de ti shi] '{prompt[:50]}...' [sheng cheng de wen ben]<stop>   *)
(*   [zhe shi yi ge mo ni xiang ying]<stop>"                                  *)
generate_response(prompt) ==
    <<"JiYuNiDeTiShi", Space, "'">> \o Slice50(prompt)
        \o <<"...'", Space, "ShengChengDeWenBen", FullStop,
             "ZheShiYiGeMoNiXiangYing", FullStop>>

generate_delta(L, word, t) ==
    LineFrame([model |-> L.model, created_at |-> Now(t),
               response |-> Append(word, Space), done |-> FALSE])

(* The terminal frame with the non-streaming path's fixed eval_count *)
generate_done_fixed_count(L, t) ==
    LineFrame([model |-> L.model, created_at |-> Now(t), response |-> <<>>,
               done |-> TRUE, context |-> <<1, 2, 3>>,
               total_duration |-> "5000000000", load_duration |-> "1000000000",
               prompt_eval_count |-> Len(Split(L.prompt.s)),
               prompt_eval_duration |-> "1000000000",
               eval_count |-> 100, eval_duration |-> "4000000000"])

generate_done(L, t) ==
    LineFrame([model |-> L.model, created_at |-> Now(t), response |-> <<>>,
               done |-> TRUE, context |-> <<1, 2, 3>>,
               total_duration |-> "5000000000", load_duration |-> "1000000000",
               prompt_eval_count |-> Len(Split(L.prompt.s)),
               prompt_eval_duration |-> "1000000000",
               eval_count |-> Len(L.words), eval_duration |-> "4000000000"])

generate_json(L, t) ==
    [model |-> L.model, created_at |-> Now(t),
     response |-> generate_response(L.prompt), done |-> TRUE,
     context |-> <<1, 2, 3>>,
     total_duration |-> "5000000000", load_duration |-> "1000000000",
     prompt_eval_count |-> Len(Split(L.prompt.s)),
     prompt_eval_duration |-> "1000000000",
     eval_count |-> 100, eval_duration |-> "4000000000"]

(* OllamaCompatibleServer.handle_chat *)

(* f"[zhe shi dui ni xiao xi de hui fu:]'{last_message[:50]}...'<stop>        *)
(*   [zhe shi yi ge mo ni de liao tian xiang ying]<stop>"                     *)
chat_response_text(last_message) ==
    <<"ZheShiDuiNiXiaoXiDeHuiFu:", "'">> \o Slice50(last_message)
        \o <<"...'", FullStop, "ZheShiYiGeMoNiDeLiaoTianXiangYing", FullStop>>

chat_delta(L, sentence, t) ==
    LineFrame([model |-> L.model, created_at |-> Now(t),
               message |-> [role |-> "assistant",
                            content |-> Append(sentence, FullStop)],
               done |-> FALSE])

(* The terminal line with the context array of /api/generate added *)
chat_done_with_context(L, t) ==
    LineFrame([model |-> L.model, created_at |-> Now(t),
               message |-> [role |-> "assistant", content |-> <<>>],
               done |-> TRUE, context |-> <<1, 2, 3>>,
               total_duration |-> "6000000000", load_duration |-> "1000000000",
               prompt_eval_count |-> Len(Split(L.last_message.s)),
               prompt_eval_duration |-> "2000000000",
               eval_count |-> Len(Split(L.response_text)),
               eval_duration |-> "3000000000"])

chat_done(L, t) ==
    LineFrame([model |-> L.model, created_at |-> Now(t),
               message |-> [role |-> "assistant", content |-> <<>>],
               done |-> TRUE,
               total_duration |-> "6000000000", load_duration |-> "1000000000",
               prompt_eval_count |-> Len(Split(L.last_message.s)),
               prompt_eval_duration |-> "2000000000",
               eval_count |-> Len(Split(L.response_text)),
               eval_duration |-> "3000000000"])

chat_json(L, t) ==
    [model |-> L.model, created_at |-> Now(t),
     message |-> [role |-> "assistant",
                  content |-> chat_response_text(L.last_message)],
     done |-> TRUE,
     total_duration |-> "6000000000", load_duration |-> "1000000000",
     prompt_eval_count |-> Len(Split(L.last_message.s)),
     prompt_eval_duration |-> "2000000000",
     eval_count |-> 100, eval_duration |-> "3000000000"]

(* OpenAICompatibleServer.handle_chat_completions *)

(* f"[zhe shi dui ni xiao xi de hui fu:]'{last_message[:50]}...'<stop>        *)
(*   [zhe shi yi ge mo ni de]OpenAI[jian rong xiang ying]<stop>"              *)
chat_completions_response_text(last_message) ==
    <<"ZheShiDuiNiXiaoXiDeHuiFu:", "'">> \o Slice50(last_message)
        \o <<"...'", FullStop, "ZheShiYiGeMoNiDeOpenAIJianRongXiangYing", FullStop>>

chat_completions_chunk(L, sentence) ==
    EventFrame([id |-> L.response_id, object |-> "chat.completion.chunk",
                created |-> L.created_at, model |-> L.model,
                choices |-> <<[index |-> 0,
                               delta |-> [role |-> "assistant",
                                          content |-> Append(sentence, FullStop)],
                               finish_reason |-> "null"]>>])

(* The final chunk with int(time.time()) read again when it is built *)
chat_completions_final_chunk_created_anew(L) ==
    EventFrame([id |-> L.response_id, object |-> "chat.completion.chunk",
                created |-> UnixTime(clock), model |-> L.model,
                choices |-> <<[index |-> 0, delta |-> <<>>,
                               finish_reason |-> "stop"]>>])

chat_completions_final_chunk(L) ==
    EventFrame([id |-> L.response_id, object |-> "chat.completion.chunk",
                created |-> L.created_at, model |-> L.model,
                choices |-> <<[index |-> 0, delta |-> <<>>,
                               finish_reason |-> "stop"]>>])

chat_completions_json(L) ==
    [id |-> L.response_id, object |-> "chat.completion",
     created |-> L.created_at, model |-> L.model,
     choices |-> <<[index |-> 0,
                    message |-> [role |-> "assistant",
                                 content |-> chat_completions_response_text(L.last_message)],
                    finish_reason |-> "stop"]>>,
     usage |-> [prompt_tokens |-> Len(Split(L.last_message.s)),
                completion_tokens |-> 50,
                total_tokens |-> Len(Split(L.last_message.s)) + 50]]

(* OpenAICompatibleServer.handle_completions *)

(* f"[ji yu ni de ti shi] '{prompt[:50]}...' [sheng cheng de wen ben]<stop>   *)
(*   [zhe shi yi ge mo ni]OpenAI[xiang ying]<stop>"                           *)
completions_text(prompt) ==
    <<"JiYuNiDeTiShi", Space, "'">> \o Slice50(prompt)
        \o <<"...'", Space, "ShengChengDeWenBen", FullStop,
             "ZheShiYiGeMoNiOpenAIXiangYing", FullStop>>

completions_chunk(L, word) ==
    EventFrame([id |-> L.response_id, object |-> "text_completion",
                created |-> L.created_at, model |-> L.model,
                choices |-> <<[text |-> Append(word, Space), index |-> 0,
                               logprobs |-> "null", finish_reason |-> "null"]>>])

completions_final_chunk(L) ==
    EventFrame([id |-> L.response_id, object |-> "text_completion",
                created |-> L.created_at, model |-> L.model,
                choices |-> <<[text |-> <<>>, index |-> 0,
                               logprobs |-> "null", finish_reason |-> "stop"]>>])

(* The response with the completion tokens left out of the total *)
completions_json_total_is_prompt(L) ==
    [id |-> L.response_id, object |-> "text_completion",
     created |-> L.created_at, model |-> L.model,
     choices |-> <<[text |-> completions_text(L.prompt), index |-> 0,
                    logprobs |-> "null", finish_reason |-> "stop"]>>,
     usage |-> [prompt_tokens |-> Len(Split(L.prompt.s)),
                completion_tokens |-> 50,
                total_tokens |-> Len(Split(L.prompt.s))]]

completions_json(L) ==
    [id |-> L.response_id, object |-> "text_completion",
     created |-> L.created_at, model |-> L.model,
     choices |-> <<[text |-> completions_text(L.prompt), index |-> 0,
                    logprobs |-> "null", finish_reason |-> "stop"]>>,
     usage |-> [prompt_tokens |-> Len(Split(L.prompt.s)),
                completion_tokens |-> 50,
                total_tokens |-> Len(Split(L.prompt.s)) + 50]]

(* OllamaCompatibleServer.handle_pull and handle_create *)

pull_steps ==
    <<[status |-> "pulling manifest"],
      [status |-> "downloading layers", completed |-> 10, total |-> 100],
      [status |-> "downloading layers", completed |-> 50, total |-> 100],
      [status |-> "downloading layers", completed |-> 100, total |-> 100],
      [status |-> "verifying sha256 digest"],
      [status |-> "writing manifest"],
      [status |-> "success"]>>

create_steps ==
    <<[status |-> "creating model"],
      [status |-> "processing layers", completed |-> 25, total |-> 100],
      [status |-> "processing layers", completed |-> 75, total |-> 100],
      [status |-> "processing layers", completed |-> 100, total |-> 100],
      [status |-> "writing model"],
      [status |-> "success"]>>

(* step.update({"status": f"pulling {model}: {step['status']}"}) *)
pull_line(L, step) ==
    LineFrame([k \in DOMAIN step |->
                 IF k = "status" THEN <<"pulling ", L.model, ": ", step.status>>
                 ELSE step[k]])

create_line(L, step) ==
    LineFrame([k \in DOMAIN step |->
                 IF k = "status" THEN <<"creating ", L.model, ": ", step.status>>
                 ELSE step[k]])

----------------------------------------------------------------------------
(* Requests *)

(* self.models, as __init__ builds it *)
ollama_models ==
    [k \in {"llama2", "mistral"} |->
        IF k = "llama2"
        THEN [name |-> "llama2:latest", modified_at |-> Now(0), size |-> "3820000000",
              digest |-> "sha256:xxxxxxxx", family |-> "llama"]
        ELSE [name |-> "mistral:latest", modified_at |-> Now(0), size |-> "4100000000",
              digest |-> "sha256:yyyyyyyy", family |-> "mistral"]]

openai_models ==
    [k \in {"gpt-3.5-turbo", "text-embedding-ada-002", "gpt-4"} |->
        [id |-> k, object |-> "model",
         created |-> CASE k = "gpt-3.5-turbo" -> 1677610602
                       [] k = "text-embedding-ada-002" -> 1671212500
                       [] k = "gpt-4" -> 1687882411,
         owned_by |-> "openai", root |-> k, parent |-> "null"]]

(* The {model_id} of GET /v1/models/{model_id} *)
ModelIds == DOMAIN openai_models \cup {"llama2", "gpt-5", ""}

Handlers == {"generate", "chat", "chat_completions", "completions", "pull", "create"}
Guarded == {"generate", "chat", "chat_completions", "completions"}  \* try/except
EventStream == {"chat_completions", "completions"}
LineDelimited == {"generate", "chat"}

Malformed == [kind |-> "malformed"]                        \* not JSON at all
JsonList == [kind |-> "json", value |-> [t |-> "list"]]    \* JSON, but no object
JsonDict(d) == [kind |-> "json", value |-> [t |-> "dict", d |-> d]]

Restrict(r, K) == [k \in K |-> r[k]]

Strings(n) == UNION {[1..k -> Alphabet] : k \in 0..n}
Prompts == {Str(s) : s \in Strings(MaxLen)} \cup {IntV, ListV}

(* A text one character longer than the prefix the replies echo *)
LongText == [k \in 1..(PrefixLen + 1) |-> "a"]

Contents ==
    {Str(<<>>), Str(<<"a">>), Str(<<"a", Space, "a">>),
     Str(<<FullStop, Space, FullStop>>), Str(LongText), IntV, ListV}
Messages ==
    {[role |-> "user", content |-> c] : c \in Contents}
        \cup {[role |-> "system", content |-> Str(<<"a">>)],
              [role |-> "assistant", content |-> Str(<<"a">>)],
              [content |-> Str(<<"a">>)]}
MessageLists == UNION {[1..k -> Messages] : k \in 0..MaxMsgs}

PromptBodies ==
    {Malformed, JsonList} \cup
    {JsonDict(Restrict(r, K)) :
        r \in [model : {"m1"}, prompt : Prompts, stream : BOOLEAN],
        K \in SUBSET {"model", "prompt", "stream"}}
ChatBodies ==
    {Malformed, JsonList} \cup
    {JsonDict(Restrict(r, K)) :
        r \in [model : {"m1"}, messages : MessageLists, stream : BOOLEAN],
        K \in SUBSET {"model", "messages", "stream"}}
NameBodies ==
    {Malformed, JsonList} \cup
    {JsonDict(Restrict(r, K)) : r \in [name : {"m1"}], K \in SUBSET {"name"}}

Bodies(h) ==
    CASE h \in {"generate", "completions"} -> PromptBodies
      [] h \in {"chat", "chat_completions"} -> ChatBodies
      [] h \in {"pull", "create"} -> NameBodies

----------------------------------------------------------------------------
(* Control: what a step leaves behind *)

NoFrame == [prefix |-> "", payload |-> [kind |-> "none"], suffix |-> ""]
NoPending == [what |-> "none", frame |-> NoFrame]
NoResult == [kind |-> "none"]
NoLocals == [model |-> ""]

JsonResponse(status, b) == [kind |-> "json", status |-> status, body |-> b]

(* except Exception as e: return web.json_response({"error": str(e)}, status=500) *)
generate_except(e) == JsonResponse(500, [error |-> [t |-> "str", v |-> e]])
chat_except(e) == JsonResponse(500, [error |-> [t |-> "str", v |-> e]])

(* ... web.json_response({"error": {"message": str(e), "type": "server_error"}}, 500) *)
chat_completions_except(e) ==
    JsonResponse(500, [error |-> [t |-> "obj",
                                  v |-> [message |-> e, type |-> "server_error"]]])
completions_except(e) ==
    JsonResponse(500, [error |-> [t |-> "obj",
                                  v |-> [message |-> e, type |-> "server_error"]]])

(* Where exception e raised in handler h ends up.  asyncio.CancelledError is *)
(* a BaseException, which "except Exception" lets through; handle_pull and   *)
(* handle_create have no try at all.                                         *)
Raise(h, e) ==
    IF e = "CancelledError" \/ h \notin Guarded
    THEN [kind |-> "raised", exc |-> e]
    ELSE CASE h = "generate" -> generate_except(e)
           [] h = "chat" -> chat_except(e)
           [] h = "chat_completions" -> chat_completions_except(e)
           [] h = "completions" -> completions_except(e)

Thrown(e) ==
    [pc |-> "returned", i |-> i, tailPos |-> tailPos, pending |-> NoPending,
     result |-> Raise(handler, e)]

Return(r) ==
    [pc |-> "returned", i |-> i, tailPos |-> tailPos, pending |-> NoPending,
     result |-> r]

AwaitPrepare ==
    [pc |-> "prepare", i |-> i, tailPos |-> tailPos, pending |-> NoPending,
     result |-> result]

Issue(what, frame, k, pos) ==
    [pc |-> "write", i |-> k, tailPos |-> pos,
     pending |-> [what |-> what, frame |-> frame], result |-> result]

Apply(c) ==
    \E v \in {c} :
        /\ pc' = v.pc
        /\ i' = v.i
        /\ tailPos' = v.tailPos
        /\ pending' = v.pending
        /\ result' = v.result

----------------------------------------------------------------------------
(* The statements of each handler that follow its loop, in program order:   *)
(* "done" writes the terminal frame, "sentinel" writes data: [DONE], "eof"  *)
(* awaits response.write_eof(); after the last one the handler returns the  *)
(* response.                                                                *)

generate_tail_eof_first == <<"eof", "done">>          \* write_eof moved up
generate_tail == <<"done", "eof">>
chat_tail == <<"done", "eof">>
chat_completions_tail_no_sentinel == <<"done", "eof">>  \* data: [DONE] left out
chat_completions_tail == <<"done", "sentinel", "eof">>
completions_tail == <<"done", "sentinel", "eof">>
pull_tail == <<"eof">>
create_tail == <<"eof">>

Statements(h) ==
    CASE h = "generate" -> generate_tail
      [] h = "chat" -> chat_tail
      [] h = "chat_completions" -> chat_completions_tail
      [] h = "completions" -> completions_tail
      [] h = "pull" -> pull_tail
      [] h = "create" -> create_tail

(* What the loop of handler h iterates over *)
Units(h, L) ==
    CASE h \in {"generate", "completions"} -> L.words
      [] h \in {"chat", "chat_completions"} -> L.sentences
      [] h \in {"pull", "create"} -> L.steps

(* if sentence.strip(): -- the chat loops skip the blank pieces *)
Emits(h, unit) == h \in {"chat", "chat_completions"} => Strip(unit) # <<>>

RECURSIVE NextEmit(_, _, _)
NextEmit(h, units, k) ==
    IF k > Len(units) THEN k
    ELSE IF Emits(h, units[k]) THEN k ELSE NextEmit(h, units, k + 1)

Delta(h, L, unit, t) ==
    CASE h = "generate" -> generate_delta(L, unit, t)
      [] h = "chat" -> chat_delta(L, unit, t)
      [] h = "chat_completions" -> chat_completions_chunk(L, unit)
      [] h = "completions" -> completions_chunk(L, unit)
      [] h = "pull" -> pull_line(L, unit)
      [] h = "create" -> create_line(L, unit)

(* len(last_message.split()) in the terminal frame of handle_chat *)
DoneRaises(h, L) == h = "chat" /\ SplitRaises(L.last_message)

DoneFrame(h, L, t) ==
    CASE h = "generate" -> generate_done(L, t)
      [] h = "chat" -> chat_done(L, t)
      [] h = "chat_completions" -> chat_completions_final_chunk(L)
      [] h = "completions" -> completions_final_chunk(L)

(* await asyncio.sleep(...) of each loop, in ticks of 50 ms *)
SleepTicks(h) ==
    CASE h \in {"generate", "completions"} -> 2
      [] h \in {"chat", "chat_completions"} -> 3
      [] h = "pull" -> 10
      [] h = "create" -> 6

(* The code after the loop, from statement pos on, up to its next await *)
RunTail(L, k, pos, t) ==
    LET stmts == Statements(handler) IN
    IF pos > Len(stmts)
    THEN [pc |-> "returned", i |-> k, tailPos |-> pos, pending |-> NoPending,
          result |-> [kind |-> "stream"]]
    ELSE CASE stmts[pos] = "done" ->
                IF DoneRaises(handler, L) THEN Thrown("AttributeError")
                ELSE Issue("done", DoneFrame(handler, L, t), k, pos)
           [] stmts[pos] = "sentinel" -> Issue("sentinel", SentinelFrame, k, pos)
           [] stmts[pos] = "eof" ->
                [pc |-> "write_eof", i |-> k, tailPos |-> pos,
                 pending |-> NoPending, result |-> result]

(* The loop from index k on, up to its next await *)
LoopOver(L, units, k, t) ==
    LET j == NextEmit(handler, units, k)
    IN IF j <= Len(units)
       THEN Issue("delta", Delta(handler, L, units[j], t), j, 0)
       ELSE RunTail(L, j, 1, t)

(* units is a value here: the split is computed once per step *)
Loop(L, k, t) ==
    CHOOSE c \in {LoopOver(L, units, k, t) : units \in {Units(handler, L)}} : TRUE

Extend(L, r) ==
    [k \in DOMAIN L \cup DOMAIN r |-> IF k \in DOMAIN r THEN r[k] ELSE L[k]]

Out(L, c, u) == [locals |-> L, ctl |-> c, uuids |-> u]

----------------------------------------------------------------------------
(* Each handler from "data = await request.json()" to its next await *)

generate_begin(b, t) ==
    IF b.kind = "malformed" THEN Out(locals, Thrown("JSONDecodeError"), uuids)
    ELSE IF b.value.t # "dict" THEN Out(locals, Thrown("AttributeError"), uuids)
    ELSE LET data == b.value.d
             L == [model |-> Get(data, "model", "llama2:latest"),
                   prompt |-> Get(data, "prompt", Str(<<>>)),
                   stream |-> Get(data, "stream", FALSE)]
         IN IF L.stream THEN Out(L, AwaitPrepare, uuids)
            ELSE IF SliceRaises(L.prompt) THEN Out(L, Thrown("TypeError"), uuids)
            ELSE IF SplitRaises(L.prompt) THEN Out(L, Thrown("AttributeError"), uuids)
            ELSE Out(L, Return(JsonResponse(200, generate_json(L, t))), uuids)

(* [m for m in messages if m['role'] == 'user'] *)
RoleRaises(messages) == \E k \in 1..Len(messages) : "role" \notin DOMAIN messages[k]
UserMessages(messages) == SelectSeq(messages, LAMBDA m : m.role = "user")
(* The content of the first user message instead of the last *)
LastMessage_takes_first(messages) ==
    LET user_messages == UserMessages(messages)
    IN IF user_messages # <<>> THEN user_messages[1].content
       ELSE Str(<<>>)
LastMessage(messages) ==
    LET user_messages == UserMessages(messages)
    IN IF user_messages # <<>> THEN user_messages[Len(user_messages)].content
       ELSE Str(<<>>)

chat_begin(b, t) ==
    IF b.kind = "malformed" THEN Out(locals, Thrown("JSONDecodeError"), uuids)
    ELSE IF b.value.t # "dict" THEN Out(locals, Thrown("AttributeError"), uuids)
    ELSE LET data == b.value.d
             messages == Get(data, "messages", <<>>)
         IN IF RoleRaises(messages) THEN Out(locals, Thrown("KeyError"), uuids)
            ELSE LET L == [model |-> Get(data, "model", "llama2:latest"),
                           messages |-> messages,
                           stream |-> Get(data, "stream", FALSE),
                           last_message |-> LastMessage(messages)]
                 IN IF L.stream THEN Out(L, AwaitPrepare, uuids)
                    ELSE IF SliceRaises(L.last_message)
                         THEN Out(L, Thrown("TypeError"), uuids)
                    ELSE IF SplitRaises(L.last_message)
                         THEN Out(L, Thrown("AttributeError"), uuids)
                    ELSE Out(L, Return(JsonResponse(200, chat_json(L, t))), uuids)

chat_completions_begin(b, t) ==
    IF b.kind = "malformed" THEN Out(locals, Thrown("JSONDecodeError"), uuids)
    ELSE IF b.value.t # "dict" THEN Out(locals, Thrown("AttributeError"), uuids)
    ELSE LET data == b.value.d
             messages == Get(data, "messages", <<>>)
         IN IF RoleRaises(messages) THEN Out(locals, Thrown("KeyError"), uuids)
            ELSE LET L == [model |-> Get(data, "model", "gpt-3.5-turbo"),
                           messages |-> messages,
                           stream |-> Get(data, "stream", FALSE),
                           last_message |-> LastMessage(messages),
                           response_id |-> <<"chatcmpl-", Uuid4Hex(uuids + 1)>>,
                           created_at |-> UnixTime(t)]
                 IN IF L.stream THEN Out(L, AwaitPrepare, uuids + 1)
                    ELSE IF SliceRaises(L.last_message)
                         THEN Out(L, Thrown("TypeError"), uuids + 1)
                    ELSE IF SplitRaises(L.last_message)
                         THEN Out(L, Thrown("AttributeError"), uuids + 1)
                    ELSE Out(L, Return(JsonResponse(200, chat_completions_json(L))),
                             uuids + 1)

completions_begin(b, t) ==
    IF b.kind = "malformed" THEN Out(locals, Thrown("JSONDecodeError"), uuids)
    ELSE IF b.value.t # "dict" THEN Out(locals, Thrown("AttributeError"), uuids)
    ELSE LET data == b.value.d
             L == [model |-> Get(data, "model", "text-davinci-003"),
                   prompt |-> Get(data, "prompt", Str(<<>>)),
                   stream |-> Get(data, "stream", FALSE),
                   response_id |-> <<"cmpl-", Uuid4Hex(uuids + 1)>>,
                   created_at |-> UnixTime(t)]
         IN IF L.stream THEN Out(L, AwaitPrepare, uuids + 1)
            ELSE IF SliceRaises(L.prompt) THEN Out(L, Thrown("TypeError"), uuids + 1)
            ELSE IF SplitRaises(L.prompt)
                 THEN Out(L, Thrown("AttributeError"), uuids + 1)
            ELSE Out(L, Return(JsonResponse(200, completions_json(L))), uuids + 1)

pull_begin(b, t) ==
    IF b.kind = "malformed" THEN Out(locals, Thrown("JSONDecodeError"), uuids)
    ELSE IF b.value.t # "dict" THEN Out(locals, Thrown("AttributeError"), uuids)
    ELSE Out([model |-> Get(b.value.d, "name", "")], AwaitPrepare, uuids)

create_begin(b, t) ==
    IF b.kind = "malformed" THEN Out(locals, Thrown("JSONDecodeError"), uuids)
    ELSE IF b.value.t # "dict" THEN Out(locals, Thrown("AttributeError"), uuids)
    ELSE Out([model |-> Get(b.value.d, "name", "custom-model")], AwaitPrepare, uuids)

Begin(h, b, t) ==
    CASE h = "generate" -> generate_begin(b, t)
      [] h = "chat" -> chat_begin(b, t)
      [] h = "chat_completions" -> chat_completions_begin(b, t)
      [] h = "completions" -> completions_begin(b, t)
      [] h = "pull" -> pull_begin(b, t)
      [] h = "create" -> create_begin(b, t)

----------------------------------------------------------------------------
(* Each streaming handler from the return of response.prepare to its next   *)
(* await                                                                    *)

generate_stream(L, t) ==
    IF SplitRaises(L.prompt) THEN Out(L, Thrown("AttributeError"), uuids)
    ELSE LET L2 == Extend(L, [words |-> Split(L.prompt.s)])
         IN Out(L2, Loop(L2, 1, t), uuids)

chat_stream(L, t) ==
    IF SliceRaises(L.last_message) THEN Out(L, Thrown("TypeError"), uuids)
    ELSE LET text == chat_response_text(L.last_message)
             L2 == Extend(L, [response_text |-> text,
                              sentences |-> SplitOn(text, FullStop)])
         IN Out(L2, Loop(L2, 1, t), uuids)

chat_completions_stream(L, t) ==
    IF SliceRaises(L.last_message) THEN Out(L, Thrown("TypeError"), uuids)
    ELSE LET text == chat_completions_response_text(L.last_message)
             L2 == Extend(L, [response_text |-> text,
                              sentences |-> SplitOn(text, FullStop)])
         IN Out(L2, Loop(L2, 1, t), uuids)

completions_stream(L, t) ==
    IF SplitRaises(L.prompt) THEN Out(L, Thrown("AttributeError"), uuids)
    ELSE LET L2 == Extend(L, [words |-> Split(L.prompt.s)])
         IN Out(L2, Loop(L2, 1, t), uuids)

pull_stream(L, t) ==
    LET L2 == Extend(L, [steps |-> pull_steps]) IN Out(L2, Loop(L2, 1, t), uuids)

create_stream(L, t) ==
    LET L2 == Extend(L, [steps |-> create_steps]) IN Out(L2, Loop(L2, 1, t), uuids)

Stream(h, L, t) ==
    CASE h = "generate" -> generate_stream(L, t)
      [] h = "chat" -> chat_stream(L, t)
      [] h = "chat_completions" -> chat_completions_stream(L, t)
      [] h = "completions" -> completions_stream(L, t)
      [] h = "pull" -> pull_stream(L, t)
      [] h = "create" -> create_stream(L, t)

(* The lookup with the miss not told apart: 200 and an empty object *)
handle_retrieve_model_no_404(registry, model_id) ==
    JsonResponse(200, IF model_id \in DOMAIN registry THEN registry[model_id]
                      ELSE [id |-> "null"])

(* OpenAICompatibleServer.handle_retrieve_model *)
handle_retrieve_model(registry, model_id) ==
    IF model_id \in DOMAIN registry
    THEN JsonResponse(200, registry[model_id])
    ELSE JsonResponse(404,
            [error |-> [t |-> "obj",
                        v |-> [message |-> <<"The model '", model_id, "' does not exist">>,
                               type |-> "invalid_request_error",
                               param |-> "model_id",
                               code |-> "model_not_found"]]])

----------------------------------------------------------------------------
(* The client: stream_ollama of aiohttp_stream_ollama.py *)

MaxLines == 3                     \* lines of a response body

(* The lines resp.content gives: a blank line, text that is no JSON, JSON   *)
(* that is no object, and objects with or without response and done         *)
BlankLine == [kind |-> "blank"]
GarbageLine == Malformed
NumberLine == [kind |-> "json", value |-> [t |-> "int"]]
ClientLines ==
    {BlankLine, GarbageLine, NumberLine,
     JsonDict([response |-> "a", done |-> FALSE]),
     JsonDict([response |-> "b", done |-> FALSE]),
     JsonDict([response |-> "", done |-> FALSE]),
     JsonDict([response |-> "a"]),
     JsonDict([done |-> FALSE]),
     JsonDict([response |-> "a", done |-> TRUE]),
     JsonDict([response |-> "", done |-> TRUE, total_duration |-> "5000000000"])}
Feeds == UNION {[1..n -> ClientLines] : n \in 0..MaxLines}
Statuses == {200, 500}

NotCalled ==
    [pc |-> "idle", status |-> 0, feed |-> <<>>, consumed |-> <<>>,
     yielded |-> <<>>, stderr |-> <<>>, stdout |-> <<>>,
     failure |-> "none", propagated |-> "none"]

IsClientError(e) == e \in {"ClientError", "ClientConnectorError", "ClientPayloadError"}

(* One pass of the loop body of "async for line in resp.content" *)
stream_ollama_line(line) ==
    IF line.kind = "blank" THEN [act |-> "continue"]          \* if not line
    ELSE IF line.kind = "malformed" THEN [act |-> "warn"]     \* JSONDecodeError
    ELSE IF line.value.t # "dict"                             \* data.get
    THEN [act |-> "raise", exc |-> "AttributeError"]
    ELSE LET data == line.value.d
             response_text == Get(data, "response", "")
         IN IF Get(data, "done", FALSE)
            THEN [act |-> "break", print |-> "total_duration" \in DOMAIN data]
            ELSE IF response_text # "" THEN [act |-> "yield", chunk |-> response_text]
            ELSE [act |-> "continue"]

(* An exception that reaches the outer handlers with the propagating one    *)
(* caught only when it is an aiohttp.ClientError                            *)
stream_ollama_except_client_errors_only(c, e) ==
    IF IsClientError(e)
    THEN [c EXCEPT !.pc = "ended", !.stderr = Append(@, "request failed")]
    ELSE [c EXCEPT !.pc = "raised", !.propagated = e]

(* except aiohttp.ClientError / except Exception: print to stderr; the      *)
(* generator then runs off its end                                          *)
stream_ollama_except(c, e) ==
    IF IsClientError(e)
    THEN [c EXCEPT !.pc = "ended", !.stderr = Append(@, "request failed")]
    ELSE [c EXCEPT !.pc = "ended", !.stderr = Append(@, "unexpected error")]

----------------------------------------------------------------------------
(* Embeddings: handle_embed and handle_embeddings *)

EmbedDim == 4096                  \* range(4096) in handle_embed
EmbeddingsDim == 1536             \* range(1536) in handle_embeddings
MaxInputs == 2                    \* longest input list of a request

(* random.seed(x) restarts the process-wide generator; n calls of           *)
(* random.gauss give the n values that follow its position                  *)
Seeded(x) == [seed |-> x, drawn |-> 0]
Gauss(r, n) == [seed |-> r.seed, from |-> r.drawn, dim |-> n]
After(r, n) == [seed |-> r.seed, drawn |-> r.drawn + n]

(* hash(v) % 10000: one value per text within a process; a list is          *)
(* unhashable                                                               *)
HashRaises(v) == v.t = "list"
HashMod(v) == [from |-> "hash", v |-> v]

(* The seed the generator takes from the system when the process starts *)
Urandom == [from |-> "urandom", v |-> Str(<<>>)]

TextList(items) == [t |-> "list", items |-> items]
EmbedTexts == {<<>>, <<"a">>, <<"a", Space, "a">>}
EmbedInputs ==
    {Str(s) : s \in EmbedTexts}
        \cup {TextList(q) : q \in UNION {[1..n -> {Str(s) : s \in EmbedTexts}]
                                            : n \in 0..MaxInputs}}
        \cup {IntV}
EmbedBodies ==
    {Malformed, JsonList} \cup
    {JsonDict(Restrict(r, K)) :
        r \in [model : {"m1"}, input : EmbedInputs],
        K \in SUBSET {"model", "input"}}
Embedders == {"embed", "embeddings"}

embed_except(e) == JsonResponse(500, [error |-> [t |-> "str", v |-> e]])
embeddings_except(e) ==
    JsonResponse(500, [error |-> [t |-> "obj",
                                  v |-> [message |-> e, type |-> "server_error"]]])

EmbedOut(res, r) == [result |-> res, random |-> r]

(* The handler drawing from the generator as it finds it, without seeding *)
handle_embed_unseeded(b, r) ==
    IF b.kind = "malformed" THEN EmbedOut(embed_except("JSONDecodeError"), r)
    ELSE IF b.value.t # "dict" THEN EmbedOut(embed_except("AttributeError"), r)
    ELSE LET data == b.value.d
             model == Get(data, "model", "llama2:latest")
             input_text == Get(data, "input", Str(<<>>))
         IN IF HashRaises(input_text) THEN EmbedOut(embed_except("TypeError"), r)
            ELSE LET embedding == Gauss(r, EmbedDim)
                     left == After(r, EmbedDim)
                 IN IF input_text.t # "str"
                    THEN EmbedOut(embed_except("TypeError"), left)
                    ELSE EmbedOut(JsonResponse(200,
                                [model |-> model,
                                 embeddings |-> <<embedding>>,
                                 total_duration |-> "100000000",
                                 load_duration |-> "50000000",
                                 prompt_eval_count |-> Len(Split(input_text.s)),
                                 prompt_eval_duration |-> "50000000"]), left)

(* OllamaCompatibleServer.handle_embed, from the return of request.json() *)
handle_embed(b, r) ==
    IF b.kind = "malformed" THEN EmbedOut(embed_except("JSONDecodeError"), r)
    ELSE IF b.value.t # "dict" THEN EmbedOut(embed_except("AttributeError"), r)
    ELSE LET data == b.value.d
             model == Get(data, "model", "llama2:latest")
             input_text == Get(data, "input", Str(<<>>))
         IN IF HashRaises(input_text) THEN EmbedOut(embed_except("TypeError"), r)
            ELSE LET seeded == Seeded(HashMod(input_text))
                     embedding == Gauss(seeded, EmbedDim)
                     left == After(seeded, EmbedDim)
                 IN IF input_text.t # "str"          \* len() of a number
                    THEN EmbedOut(embed_except("TypeError"), left)
                    ELSE EmbedOut(JsonResponse(200,
                                [model |-> model,
                                 embeddings |-> <<embedding>>,
                                 total_duration |-> "100000000",
                                 load_duration |-> "50000000",
                                 prompt_eval_count |-> Len(Split(input_text.s)),
                                 prompt_eval_duration |-> "50000000"]), left)

RECURSIVE SumWords(_)
SumWords(inputs) ==
    IF inputs = <<>> THEN 0
    ELSE Len(Split(Head(inputs).s)) + SumWords(Tail(inputs))

(* OpenAICompatibleServer.handle_embeddings, from the return of request.json() *)
handle_embeddings(b, r) ==
    IF b.kind = "malformed" THEN EmbedOut(embeddings_except("JSONDecodeError"), r)
    ELSE IF b.value.t # "dict" THEN EmbedOut(embeddings_except("AttributeError"), r)
    ELSE LET data == b.value.d
             model == Get(data, "model", "text-embedding-ada-002")
             input_text == Get(data, "input", Str(<<>>))
         IN IF input_text.t = "int"                  \* for text in 5
            THEN EmbedOut(embeddings_except("TypeError"), r)
            ELSE LET inputs == IF input_text.t = "str" THEN <<input_text>>
                               ELSE input_text.items
                     n == Len(inputs)
                 IN EmbedOut(JsonResponse(200,
                            [object |-> "list",
                             data |-> [k \in 1..n |->
                                         [object |-> "embedding",
                                          embedding |-> Gauss(Seeded(HashMod(inputs[k])),
                                                              EmbeddingsDim),
                                          index |-> k - 1]],
                             model |-> model,
                             usage |-> [prompt_tokens |-> SumWords(inputs),
                                        total_tokens |-> SumWords(inputs)]]),
                         IF n = 0 THEN r
                         ELSE After(Seeded(HashMod(inputs[n])), EmbeddingsDim))

----------------------------------------------------------------------------
(* Actions *)

Init ==
    /\ handler = "none"
    /\ body = [kind |-> "none"]
    /\ pc = "idle"
    /\ locals = NoLocals
    /\ i = 0
    /\ tailPos = 0
    /\ pending = NoPending
    /\ log = <<>>
    /\ result = NoResult
    /\ clock = 0
    /\ uuids = 0
    /\ models = [ollama |-> ollama_models, openai |-> openai_models]
    /\ random = Seeded(Urandom)
    /\ client = NotCalled

(* The router hands a POST to its handler, which awaits request.json() *)
Receive ==
    /\ pc = "idle"
    /\ \E h \in Handlers : \E b \in Bodies(h) : \E t \in ArrivalTimes :
          /\ handler' = h
          /\ body' = b
          /\ clock' = t
    /\ pc' = "json"
    /\ UNCHANGED <<models, random, client, locals, i, tailPos, pending, log, result, uuids>>

(* GET /v1/models/{model_id}: the handler has no await *)
RetrieveModel ==
    /\ pc = "idle"
    /\ \E model_id \in ModelIds :
          /\ body' = [kind |-> "path", model_id |-> model_id]
          /\ result' = handle_retrieve_model(models.openai, model_id)
    /\ handler' = "retrieve_model"
    /\ pc' = "returned"
    /\ UNCHANGED <<models, random, client, locals, i, tailPos, pending, log, clock, uuids>>

(* POST /api/embed or /v1/embeddings: the handler awaits request.json() *)
ReceiveEmbed ==
    /\ pc = "idle"
    /\ \E h \in Embedders : \E b \in EmbedBodies : \E t \in ArrivalTimes :
          /\ handler' = h
          /\ body' = b
          /\ clock' = t
    /\ pc' = "json"
    /\ UNCHANGED <<models, random, client, locals, i, tailPos, pending, log, result, uuids>>

(* request.json() returns or raises; an embedding handler has no other await *)
Embed ==
    /\ pc = "json"
    /\ handler \in Embedders
    /\ \E out \in {IF handler = "embed" THEN handle_embed(body, random)
                   ELSE handle_embeddings(body, random)} :
          /\ result' = out.result
          /\ random' = out.random
    /\ pc' = "returned"
    /\ UNCHANGED <<models, client, handler, body, locals, i, tailPos, pending, log,
                   clock, uuids>>

(* request.json() returns or raises; the handler runs to its next await *)
ReadJson ==
    /\ pc = "json"
    /\ handler \in Handlers
    /\ \E out \in {Begin(handler, body, clock)} :
          /\ locals' = out.locals
          /\ uuids' = out.uuids
          /\ Apply(out.ctl)
    /\ UNCHANGED <<models, random, client, handler, body, log, clock>>

(* response.prepare(request) has written the status line and the headers *)
Prepared ==
    /\ pc = "prepare"
    /\ log' = Append(log, [op |-> "prepare"])
    /\ \E out \in {Stream(handler, locals, clock)} :
          /\ locals' = out.locals
          /\ uuids' = out.uuids
          /\ Apply(out.ctl)
    /\ UNCHANGED <<models, random, client, handler, body, clock>>

(* response.write(frame) went through *)
WriteOk ==
    /\ pc = "write"
    /\ log' = Append(log, [op |-> "write", frame |-> pending.frame])
    /\ IF pending.what = "delta"
       THEN Apply([pc |-> "sleep", i |-> i, tailPos |-> tailPos,
                   pending |-> NoPending, result |-> result])
       ELSE Apply(RunTail(locals, i, tailPos + 1, clock))
    /\ UNCHANGED <<models, random, client, handler, body, locals, clock, uuids>>

(* response.write(frame) raised: the client is gone *)
WriteFails ==
    /\ pc = "write"
    /\ log' = Append(log, [op |-> "write_failed"])
    /\ Apply(Thrown("ConnectionResetError"))
    /\ UNCHANGED <<models, random, client, handler, body, locals, clock, uuids>>

(* asyncio.sleep(...) is over; the loop goes on *)
SleepDone ==
    /\ pc = "sleep"
    /\ clock' = clock + SleepTicks(handler)
    /\ Apply(Loop(locals, i + 1, clock'))
    /\ UNCHANGED <<models, random, client, handler, body, locals, log, uuids>>

(* response.write_eof() went through *)
WriteEofOk ==
    /\ pc = "write_eof"
    /\ log' = Append(log, [op |-> "write_eof"])
    /\ Apply(RunTail(locals, i, tailPos + 1, clock))
    /\ UNCHANGED <<models, random, client, handler, body, locals, clock, uuids>>

(* The handler's task is cancelled while it is suspended at an await *)
Cancelled ==
    /\ pc \in {"json", "prepare", "write", "sleep", "write_eof"}
    /\ Apply(Thrown("CancelledError"))
    /\ UNCHANGED <<models, random, client, handler, body, locals, log, clock, uuids>>

Next ==
    \/ Receive
    \/ RetrieveModel
    \/ ReceiveEmbed
    \/ Embed
    \/ ReadJson
    \/ Prepared
    \/ WriteOk
    \/ WriteFails
    \/ SleepDone
    \/ WriteEofOk
    \/ Cancelled

Spec == Init /\ [][Next]_vars

----------------------------------------------------------------------------
(* Reading the log *)

Ops(op) == {k \in 1..Len(log) : log[k].op = op}
Writes == Ops("write")
Frames == [k \in 1..Cardinality(Writes) |->
             log[CHOOSE w \in Writes : Cardinality({v \in Writes : v <= w}) = k].frame]

Exited == pc = "returned"
Streaming == Ops("prepare") # {}
WasCancelled == result.kind = "raised" /\ result.exc = "CancelledError"
TransportFault == Ops("write_failed") # {} \/ WasCancelled

IsJson(f) == f.payload.kind = "json"
IsLine(f) == f.prefix = "" /\ IsJson(f) /\ f.suffix = "\n"
IsEvent(f) == f.prefix = "data: " /\ f.suffix = "\n\n"

(* done=true on the line-delimited surface, finish_reason="stop" on the other *)
IsTerminal(h, f) ==
    /\ IsJson(f)
    /\ IF h \in LineDelimited THEN f.payload.obj.done
       ELSE f.payload.obj.choices[1].finish_reason = "stop"
IsDelta(h, f) == IsJson(f) /\ ~IsTerminal(h, f)

DeltaText(h, f) ==
    CASE h = "generate" -> f.payload.obj.response
      [] h = "chat" -> f.payload.obj.message.content
      [] h = "chat_completions" -> f.payload.obj.choices[1].delta.content
      [] h = "completions" -> f.payload.obj.choices[1].text

StreamedText ==
    Flatten([k \in DOMAIN Frames |->
               IF IsDelta(handler, Frames[k]) THEN DeltaText(handler, Frames[k])
               ELSE <<>>])

(* The reply text the same request gets with stream=false *)
FullText ==
    CASE handler = "generate" -> generate_json(locals, clock).response
      [] handler = "chat" -> chat_json(locals, clock).message.content
      [] handler = "chat_completions" ->
            chat_completions_json(locals).choices[1].message.content
      [] handler = "completions" -> completions_json(locals).choices[1].text

Terminals == {k \in DOMAIN Frames : IsTerminal(handler, Frames[k])}

----------------------------------------------------------------------------
(* C1: for every request of the four generation handlers, the Delta texts   *)
(* of the streamed reply, concatenated in emission order, equal the reply   *)
(* text of the non-streaming response to the same request.                  *)
C1_StreamEqualsFull ==
    (handler \in Guarded /\ result.kind = "stream") => StreamedText = FullText

(* C2: every streaming session of the four generation handlers emits        *)
(* exactly one terminal frame and no Delta frame after it (sessions whose   *)
(* transport failed or whose task was cancelled are left aside).            *)
C2_ExactlyOneTerminal ==
    (handler \in Guarded /\ Exited /\ Streaming /\ ~TransportFault) =>
        /\ Cardinality(Terminals) = 1
        /\ \A k \in Terminals : \A n \in DOMAIN Frames :
               n > k => ~IsDelta(handler, Frames[n])

(* C3: on /v1/chat/completions and /v1/completions every frame written      *)
(* starts with "data: " and ends with a blank line; what is written after   *)
(* the finish_reason="stop" chunk is the sentinel data: [DONE]; the stream  *)
(* is finalized only right after the sentinel, which follows the stop       *)
(* chunk; and a session that wrote the stop chunk and met no transport      *)
(* failure has written the sentinel by the time the handler returns.        *)
C3_EventStreamFraming ==
    handler \in EventStream =>
        /\ \A k \in Writes : IsEvent(log[k].frame)
        /\ \A k \in Writes :
              (IsTerminal(handler, log[k].frame) /\ k < Len(log)) =>
                  /\ log[k + 1].op \in {"write", "write_failed"}
                  /\ log[k + 1].op = "write" => log[k + 1].frame = SentinelFrame
        /\ \A k \in Writes :
              (log[k].frame = SentinelFrame /\ k < Len(log)) =>
                  log[k + 1].op = "write_eof"
        /\ \A k \in Ops("write_eof") :
              /\ k = Len(log)
              /\ k > 2
              /\ log[k - 1].op = "write" /\ log[k - 1].frame = SentinelFrame
              /\ log[k - 2].op = "write" /\ IsTerminal(handler, log[k - 2].frame)
        /\ (Exited /\ ~TransportFault /\ Terminals # {}) =>
              \E k \in Writes : log[k].frame = SentinelFrame

C3_Witness ==
    /\ handler \in EventStream
    /\ result.kind = "stream"
    /\ \E k \in DOMAIN Frames : IsDelta(handler, Frames[k])
    /\ Ops("write_eof") # {}

(* C4: on /api/generate and /api/chat every frame written is one JSON       *)
(* object followed by one newline, every frame but the last has done=false  *)
(* and the last has done=true (sessions whose transport failed or whose     *)
(* task was cancelled are left aside).                                      *)
C4_LineDelimitedFraming ==
    (handler \in LineDelimited /\ Exited /\ ~TransportFault /\ Frames # <<>>) =>
        /\ \A k \in DOMAIN Frames : IsLine(Frames[k])
        /\ \A k \in DOMAIN Frames :
              Frames[k].payload.obj.done <=> (k = Len(Frames))

(* C5: after a write to the transport has failed, the handler attempts no   *)
(* further write and produces no error frame and no error response.         *)
C5_SilentAbandon ==
    \A k \in Ops("write_failed") :
        /\ k = Len(log)
        /\ pc = "returned"
        /\ result.kind # "json"

(* C6: once response.prepare has run, write_eof has run exactly once by     *)
(* the time the handler is left, on every exit path.                        *)
C6_FinalizedOnEveryExit ==
    (Exited /\ Streaming) => Cardinality(Ops("write_eof")) = 1

(* C7: the status line is written exactly once per request and before the   *)
(* first payload byte; no handler that has prepared a response produces a   *)
(* second one.                                                              *)
C7_OneResponse ==
    /\ Cardinality(Ops("prepare")) <= 1
    /\ \A k \in Writes : \E p \in Ops("prepare") : p < k
    /\ ~(Streaming /\ result.kind = "json")

(* C8: after write_eof no write to that response occurs, and none is        *)
(* underway.                                                                *)
C8_NoWriteAfterEof ==
    \A e \in Ops("write_eof") :
        /\ \A k \in 1..Len(log) :
              k > e => log[k].op \notin {"write", "write_failed", "prepare"}
        /\ pc # "write"

C8_Witness ==
    /\ result.kind = "stream"
    /\ Ops("write_eof") # {}
    /\ Cardinality(Writes) > 1

(* C9: a body that is not JSON is rejected before any response byte is      *)
(* committed, with status 400 and the surface's structured error, on every  *)
(* POST handler.                                                            *)
IsOllamaError(b) == DOMAIN b = {"error"} /\ b.error.t = "str"
IsOpenAIError(b) ==
    /\ DOMAIN b = {"error"}
    /\ b.error.t = "obj"
    /\ {"message", "type"} \subseteq DOMAIN b.error.v
SurfaceError(h, b) ==
    IF h \in {"chat_completions", "completions", "retrieve_model", "embeddings"}
    THEN IsOpenAIError(b)
    ELSE IsOllamaError(b)

C9_MalformedIs400 ==
    (Exited /\ body.kind = "malformed" /\ ~WasCancelled) =>
        /\ ~Streaming
        /\ result.kind = "json"
        /\ result.status = 400
        /\ SurfaceError(handler, result.body)

(* C10: a request that fails is answered with the error shape of its own    *)
(* surface: {"error": <string>} on the Ollama server, {"error": {"message", *)
(* "type"}} on the OpenAI server, never the other shape or an unstructured  *)
(* error.                                                                   *)
C10_ErrorShapes ==
    (Exited /\ result.kind \notin {"stream"} /\ ~WasCancelled
        /\ ~(result.kind = "json" /\ result.status = 200)) =>
        /\ result.kind = "json"
        /\ SurfaceError(handler, result.body)

(* C11: a request to a generation handler either gets its whole reply or    *)
(* fails before status 200 is committed: no exception caused by the         *)
(* payload is first raised after response.prepare (transport failures and   *)
(* cancellations are another matter).                                       *)
C11_FailsBeforeCommit ==
    (handler \in Guarded /\ Exited /\ Streaming /\ ~TransportFault) =>
        result.kind = "stream"

(* C12: GET /v1/models/{model_id} answers 404 with a structured error whose *)
(* code is "model_not_found" for every id that is no key of the registry,   *)
(* and 200 with that model's metadata for every id that is a key.           *)
C12_RetrieveModel ==
    (handler = "retrieve_model" /\ Exited) =>
        /\ result.kind = "json"
        /\ IF body.model_id \in {"gpt-3.5-turbo", "text-embedding-ada-002", "gpt-4"}
           THEN /\ result.status = 200
                /\ result.body = models.openai[body.model_id]
                /\ result.body.id = body.model_id
           ELSE /\ result.status = 404
                /\ IsOpenAIError(result.body)
                /\ result.body.error.v.code = "model_not_found"

C12_Witness ==
    /\ handler = "retrieve_model"
    /\ Exited
    /\ body.model_id = "llama2"
    /\ result.status = 404

(* The source text of a request: the prompt, or the last user message *)
Source ==
    IF handler \in {"generate", "completions"} THEN locals.prompt
    ELSE locals.last_message

Deltas == {k \in DOMAIN Frames : IsDelta(handler, Frames[k])}

(* The text and the completion token count a terminal frame carries *)
TerminalText(h, f) ==
    CASE h = "generate" -> f.payload.obj.response
      [] h = "chat" -> f.payload.obj.message.content
      [] h = "chat_completions" -> f.payload.obj.choices[1].delta
      [] h = "completions" -> f.payload.obj.choices[1].text
HasCompletionCount(h, f) ==
    IF h \in LineDelimited THEN "eval_count" \in DOMAIN f.payload.obj
    ELSE "usage" \in DOMAIN f.payload.obj
CompletionCount(h, f) ==
    IF h \in LineDelimited THEN f.payload.obj.eval_count
    ELSE f.payload.obj.usage.completion_tokens

(* C13: a streaming request whose source text is empty (prompt "", no user  *)
(* message, or an empty last user message) gets zero Delta frames and one   *)
(* terminal frame, with empty content and a completion token count of 0    *)
(* (where the terminal frame carries a count at all).                      *)
C13_EmptySource ==
    (handler \in Guarded /\ result.kind = "stream" /\ Source = Str(<<>>)) =>
        /\ Deltas = {}
        /\ Cardinality(Terminals) = 1
        /\ \A k \in Terminals :
              /\ TerminalText(handler, Frames[k]) = <<>>
              /\ HasCompletionCount(handler, Frames[k]) =>
                    CompletionCount(handler, Frames[k]) = 0

(* C14: on a streaming /api/generate with a string prompt, the eval_count   *)
(* of the terminal frame is the number of Delta frames written before it;   *)
(* a prompt that is empty or all whitespace gives a stream of the terminal  *)
(* frame alone, with eval_count 0.                                          *)
C14_EvalCount ==
    (handler = "generate" /\ Streaming) =>
        /\ \A k \in Terminals :
              Frames[k].payload.obj.eval_count =
                  Cardinality({d \in Deltas : d < k})
        /\ (result.kind = "stream"
            /\ \A c \in 1..Len(locals.prompt.s) : locals.prompt.s[c] = Space) =>
              /\ Len(Frames) = 1
              /\ Terminals = {1}
              /\ Frames[1].payload.obj.eval_count = 0

C14_Witness ==
    /\ handler = "generate"
    /\ result.kind = "stream"
    /\ locals.prompt.s = <<"a", Space>>
    /\ Cardinality(Deltas) = 1
    /\ \E k \in Terminals : Frames[k].payload.obj.eval_count = 1

C14_WitnessBlank ==
    /\ handler = "generate"
    /\ result.kind = "stream"
    /\ locals.prompt.s = <<Space, Space>>
    /\ Len(Frames) = 1

(* C15: in every response that carries a usage object with prompt_tokens,   *)
(* completion_tokens and total_tokens, the three are non-negative integers  *)
(* and total_tokens = prompt_tokens + completion_tokens.                    *)
HasFullUsage ==
    /\ result.kind = "json"
    /\ "usage" \in DOMAIN result.body
    /\ {"prompt_tokens", "completion_tokens", "total_tokens"}
          \subseteq DOMAIN result.body.usage

C15_UsageAddsUp ==
    HasFullUsage =>
        LET u == result.body.usage
        IN /\ u.prompt_tokens \in Nat
           /\ u.completion_tokens \in Nat
           /\ u.total_tokens \in Nat
           /\ u.total_tokens = u.prompt_tokens + u.completion_tokens

C15_Witness ==
    /\ handler = "completions"
    /\ HasFullUsage
    /\ result.body.usage.prompt_tokens = 1


(* The token counts and the reply text a terminal object carries *)
HasCounts(h, o) ==
    IF h \in LineDelimited
    THEN {"prompt_eval_count", "eval_count"} \subseteq DOMAIN o
    ELSE "usage" \in DOMAIN o
PromptCount(h, o) ==
    IF h \in LineDelimited THEN o.prompt_eval_count ELSE o.usage.prompt_tokens
ReplyCount(h, o) ==
    IF h \in LineDelimited THEN o.eval_count ELSE o.usage.completion_tokens
ResponseText(h, o) ==
    CASE h = "generate" -> o.response
      [] h = "chat" -> o.message.content
      [] h = "chat_completions" -> o.choices[1].message.content
      [] h = "completions" -> o.choices[1].text

(* The reply text of a streaming session: what the Deltas are cut from *)
SessionReply ==
    CASE handler = "generate" -> StreamedText
      [] handler = "chat" -> chat_response_text(locals.last_message)
      [] handler = "chat_completions" ->
            chat_completions_response_text(locals.last_message)
      [] handler = "completions" -> completions_text(locals.prompt)

(* C16: the terminal frame of a streaming session, and the 200 response of  *)
(* a non-streaming request, carry a prompt token count equal to the number  *)
(* of whitespace-delimited words of the source text and a completion token  *)
(* count equal to the number of such words of the reply text.               *)
C16_CountsAreWordCounts ==
    handler \in Guarded =>
        /\ (result.kind = "json" /\ result.status = 200) =>
              /\ HasCounts(handler, result.body)
              /\ PromptCount(handler, result.body) = Len(Split(Source.s))
              /\ ReplyCount(handler, result.body)
                    = Len(Split(ResponseText(handler, result.body)))
        /\ Streaming =>
              \A k \in Terminals :
                  /\ HasCounts(handler, Frames[k].payload.obj)
                  /\ PromptCount(handler, Frames[k].payload.obj) = Len(Split(Source.s))
                  /\ ReplyCount(handler, Frames[k].payload.obj) = Len(Split(SessionReply))

(* The same statement for streaming sessions of the line-delimited surface *)
C16_LineDelimitedStreams ==
    (handler \in LineDelimited /\ Streaming) =>
        \A k \in Terminals :
            /\ PromptCount(handler, Frames[k].payload.obj) = Len(Split(Source.s))
            /\ ReplyCount(handler, Frames[k].payload.obj) = Len(Split(SessionReply))


(* The messages of the request as they were sent *)
IsChatRequest ==
    /\ handler \in {"chat", "chat_completions"}
    /\ body.kind = "json"
    /\ body.value.t = "dict"
SentMessages == Get(body.value.d, "messages", <<>>)
SentStream == Get(body.value.d, "stream", FALSE)
AllHaveRole == \A k \in 1..Len(SentMessages) : "role" \in DOMAIN SentMessages[k]
UserIndexes == {k \in 1..Len(SentMessages) : SentMessages[k].role = "user"}
LastUserContent ==
    IF UserIndexes = {} THEN Str(<<>>)
    ELSE SentMessages[CHOOSE k \in UserIndexes : \A j \in UserIndexes : j <= k].content

IsSubstring(a, b) ==
    \E k \in 0..(Len(b) - Len(a)) : SubSeq(b, k + 1, k + Len(a)) = a

(* C17: a non-streaming chat request (both surfaces) whose messages all     *)
(* carry a role and whose last user message is a string of at most 50       *)
(* characters is answered 200 with a message content that contains that     *)
(* message as a substring; on /v1/chat/completions finish_reason is "stop". *)
C17_ReplyEchoesMessage ==
    (/\ IsChatRequest /\ AllHaveRole /\ ~SentStream
     /\ result.kind = "json"
     /\ LastUserContent.t = "str"
     /\ Len(LastUserContent.s) <= PrefixLen) =>
        /\ result.status = 200
        /\ IsSubstring(LastUserContent.s, ResponseText(handler, result.body))
        /\ handler = "chat_completions" =>
              result.body.choices[1].finish_reason = "stop"

C17_Witness ==
    /\ IsChatRequest /\ AllHaveRole /\ ~SentStream
    /\ handler = "chat_completions"
    /\ result.kind = "json"
    /\ LastUserContent = Str(<<"a", Space, "a">>)
    /\ result.body.choices[1].finish_reason = "stop"

(* Past 50 characters the echo is cut: the message is no substring *)
C17_WitnessLong ==
    /\ IsChatRequest /\ AllHaveRole /\ ~SentStream
    /\ result.kind = "json" /\ result.status = 200
    /\ LastUserContent = Str(LongText)
    /\ ~IsSubstring(LongText, ResponseText(handler, result.body))


(* C18: in a completed streaming chat session (both surfaces) every Delta   *)
(* is one full-stop-delimited piece of the reply text with its full stop,   *)
(* and the Deltas concatenated in emission order equal the reply text,      *)
(* whatever the user's message contains.                                    *)
C18_ChatDeltasRebuildReply ==
    (handler \in {"chat", "chat_completions"} /\ result.kind = "stream") =>
        /\ \A k \in Deltas :
              LET x == DeltaText(handler, Frames[k])
              IN /\ x # <<>>
                 /\ x[Len(x)] = FullStop
                 /\ \A j \in 1..(Len(x) - 1) : x[j] # FullStop
        /\ StreamedText = SessionReply


(* C19: once a chat handler (either surface) has read a request (its locals *)
(* are set: request.json() returned before any cancellation) whose          *)
(* messages all carry role and content, its source text last_message is    *)
(* the content of the message of highest index whose role is "user",        *)
(* whatever other messages surround it, and "" when there is none.          *)
C19_LastUserMessage ==
    (IsChatRequest /\ AllHaveRole /\ locals # NoLocals) =>
        /\ "last_message" \in DOMAIN locals
        /\ locals.last_message = LastUserContent
        /\ UserIndexes = {} => locals.last_message = Str(<<>>)

C19_Witness ==
    /\ IsChatRequest /\ AllHaveRole /\ locals # NoLocals
    /\ Len(SentMessages) = 2
    /\ UserIndexes = {1, 2}
    /\ SentMessages[1].content = Str(<<"a">>)
    /\ locals.last_message = Str(<<"a", Space, "a">>)

C19_WitnessTrailingAssistant ==
    /\ IsChatRequest /\ AllHaveRole /\ locals # NoLocals
    /\ Len(SentMessages) = 2
    /\ SentMessages[2].role = "assistant"
    /\ locals.last_message = Str(<<"a", Space, "a">>)

C19_WitnessNoUser ==
    /\ IsChatRequest /\ AllHaveRole /\ locals # NoLocals
    /\ Len(SentMessages) = 1
    /\ UserIndexes = {}
    /\ locals.last_message = Str(<<>>)


(* The fields that belong to the terminal line *)
UsageTimingFields ==
    {"total_duration", "load_duration", "prompt_eval_count",
     "prompt_eval_duration", "eval_count", "eval_duration"}
TerminalFields == UsageTimingFields \cup {"context"}

----------------------------------------------------------------------------
(* The event loop resumes every suspended handler: an await returns or      *)
(* raises, so a step that can be taken is taken.                            *)
Resume ==
    \/ Embed
    \/ ReadJson
    \/ Prepared
    \/ WriteOk
    \/ WriteFails
    \/ SleepDone
    \/ WriteEofOk
    \/ Cancelled

FairSpec == Spec /\ WF_vars(Resume)

(* The last frame of a session: done=true, finish_reason="stop", or the     *)
(* "success" step of /api/pull and /api/create                              *)
TerminalWritten ==
    IF handler \in Guarded THEN Terminals # {}
    ELSE \E k \in DOMAIN Frames : Frames[k].payload.obj.status[4] = "success"
Finalized == Ops("write_eof") # {}

(* C21: every streaming session of the six streaming handlers whose         *)
(* transport writes and pacing sleeps complete (no write fails, the task    *)
(* is not cancelled) eventually has written its terminal frame and          *)
(* finalized the stream.                                                    *)
C21_StreamsFinish ==
    Streaming ~> (TransportFault \/ (TerminalWritten /\ Finalized))

(* Every session comes to an end, so it writes finitely many frames *)
C21_SessionsExit == (pc # "idle") ~> Exited

(* The sessions of /api/pull and /api/create do finish *)
C21_StepStreamsFinish ==
    (Streaming /\ handler \in {"pull", "create"})
        ~> (TransportFault \/ (TerminalWritten /\ Finalized))


(* So does every session whose source text is a string *)
C21_TextStreamsFinish ==
    (Streaming /\ handler \in Guarded /\ Source.t = "str")
        ~> (TransportFault \/ (TerminalWritten /\ Finalized))


----------------------------------------------------------------------------
(* The input of an embedding request as it was sent *)
IsEmbedRequest(h) ==
    /\ handler = h
    /\ body.kind = "json"
    /\ body.value.t = "dict"
    /\ "input" \in DOMAIN body.value.d
SentInput == body.value.d.input

(* What /api/embed owes a request: one vector per text, each the values     *)
(* the generator gives after being seeded with the hash of that text       *)
EmbeddingOf(text, dim) ==
    [seed |-> [from |-> "hash", v |-> text], from |-> 0, dim |-> dim]

(* C26: POST /api/embed answers 200 with one vector for a string input and  *)
(* with N vectors for a list of N strings, and the vectors are those the    *)
(* input determines whatever the generator's state was before (so that two  *)
(* requests with the same text get identical vectors).                      *)
C26_EmbedVectors ==
    (IsEmbedRequest("embed") /\ Exited /\ ~WasCancelled /\ SentInput.t # "int") =>
        /\ result.kind = "json"
        /\ result.status = 200
        /\ IF SentInput.t = "str"
           THEN result.body.embeddings = <<EmbeddingOf(SentInput, EmbedDim)>>
           ELSE Len(result.body.embeddings) = Len(SentInput.items)

(* The same for a string input alone *)
C26_EmbedString ==
    (IsEmbedRequest("embed") /\ Exited /\ ~WasCancelled /\ SentInput.t = "str") =>
        /\ result.kind = "json"
        /\ result.status = 200
        /\ result.body.embeddings = <<EmbeddingOf(SentInput, EmbedDim)>>

(* /v1/embeddings does answer a list of N strings with N vectors *)
C26_EmbeddingsVectors ==
    (IsEmbedRequest("embeddings") /\ Exited /\ ~WasCancelled /\ SentInput.t # "int") =>
        /\ result.kind = "json"
        /\ result.status = 200
        /\ LET inputs == IF SentInput.t = "str" THEN <<SentInput>> ELSE SentInput.items
           IN /\ Len(result.body.data) = Len(inputs)
              /\ \A k \in 1..Len(inputs) :
                    result.body.data[k].embedding = EmbeddingOf(inputs[k], EmbeddingsDim)


----------------------------------------------------------------------------
(* Concurrent sessions.  The session above runs among others: while it is   *)
(* suspended at an await, or before it arrives, another session runs up to  *)
(* its own next await.  Of all the handlers only handle_embed and           *)
(* handle_embeddings write to anything a session does not own, the          *)
(* process-wide generator of module random; none assigns to self.models.    *)
OtherBodies == {JsonDict([input |-> Str(<<"a">>)]), JsonDict([input |-> IntV])}

OtherSession ==
    /\ pc # "returned"
    /\ \E h \in Embedders : \E b \in OtherBodies :
          random' = (IF h = "embed" THEN handle_embed(b, random)
                     ELSE handle_embeddings(b, random)).random
    /\ UNCHANGED <<models, client, handler, body, pc, locals, i, tailPos, pending,
                   log, result, clock, uuids>>

NextConcurrent ==
    \/ Next
    \/ OtherSession

ConcurrentSpec == Init /\ [][NextConcurrent]_vars

(* The frames the session writes when it runs alone, having arrived at t0:  *)
(* one Delta per emitted unit, a pacing sleep apart, then the frames that   *)
(* follow the loop                                                          *)
EmittedIndexes ==
    LET units == Units(handler, locals)
    IN SelectSeq([k \in 1..Len(units) |-> k], LAMBDA k : Emits(handler, units[k]))
AloneFrames(t0) ==
    LET units == Units(handler, locals)
        n == Len(EmittedIndexes)
        deltas == [k \in 1..n |->
                     Delta(handler, locals, units[EmittedIndexes[k]],
                           t0 + (k - 1) * SleepTicks(handler))]
        end == t0 + n * SleepTicks(handler)
    IN deltas \o
       (IF handler \in Guarded THEN <<DoneFrame(handler, locals, end)>> ELSE <<>>) \o
       (IF handler \in EventStream THEN <<SentinelFrame>> ELSE <<>>)
IsPrefix(a, b) == Len(a) <= Len(b) /\ a = SubSeq(b, 1, Len(a))

OwnInput == Get(body.value.d, "input", Str(<<>>))

(* C22: with other sessions running at its suspension points, a session     *)
(* writes the frames it writes alone (all of them, or the first ones when   *)
(* it is cut short), an embedding response holds the vectors its own input  *)
(* determines, and self.models stays as the constructor built it.           *)
C22_SessionsDoNotInterfere ==
    /\ models = [ollama |-> ollama_models, openai |-> openai_models]
    /\ Frames # <<>> => \E t0 \in ArrivalTimes : IsPrefix(Frames, AloneFrames(t0))
    /\ (handler = "embed" /\ result.kind = "json" /\ result.status = 200) =>
          result.body.embeddings = <<EmbeddingOf(OwnInput, EmbedDim)>>
    /\ (handler = "embeddings" /\ result.kind = "json" /\ result.status = 200) =>
          LET inputs == IF OwnInput.t = "str" THEN <<OwnInput>> ELSE OwnInput.items
          IN /\ Len(result.body.data) = Len(inputs)
             /\ \A k \in 1..Len(inputs) :
                   result.body.data[k].embedding = EmbeddingOf(inputs[k], EmbeddingsDim)

(* A chat stream that ran to its end while another session reseeded the     *)
(* generator                                                                *)
C22_Witness ==
    /\ handler = "chat"
    /\ result.kind = "stream"
    /\ Len(Frames) = 3
    /\ random = [seed |-> [from |-> "hash", v |-> Str(<<"a">>)],
                 drawn |-> EmbeddingsDim]

(* An embedding answered after another session had left the generator       *)
(* elsewhere is reached as well: the state keeps no trace of it but the     *)
(* response                                                                 *)
C22_WitnessEmbed ==
    /\ handler = "embed"
    /\ result.kind = "json" /\ result.status = 200
    /\ OwnInput = Str(<<"a", Space, "a">>)
    /\ random = [seed |-> [from |-> "hash", v |-> OwnInput], drawn |-> EmbedDim]


----------------------------------------------------------------------------
(* The chunks of an event-stream session, the sentinel left out *)
Chunks == {k \in DOMAIN Frames : IsJson(Frames[k])}
DefaultModel(h) == IF h = "chat_completions" THEN "gpt-3.5-turbo" ELSE "text-davinci-003"
SentModel(h) == Get(body.value.d, "model", DefaultModel(h))

(* C23: in a streaming session of /v1/chat/completions or /v1/completions   *)
(* every chunk, Delta or stop, carries one id, one created value and one    *)
(* model, all fixed when the request was read: the id is the prefix of the  *)
(* endpoint and the one uuid4 the handler drew, created is the second the   *)
(* request arrived in, and model is the request's model field, or the       *)
(* handler's default, whether the registry knows it or not.                 *)
C23_ChunksShareIdentity ==
    (handler \in EventStream /\ Streaming) =>
        /\ uuids = 1
        /\ \E t \in ArrivalTimes :
              \A k \in Chunks :
                  LET c == Frames[k].payload.obj
                  IN /\ c.id = <<IF handler = "chat_completions" THEN "chatcmpl-"
                                 ELSE "cmpl-", Uuid4Hex(1)>>
                     /\ c.created = UnixTime(t)
                     /\ c.model = SentModel(handler)
        /\ \A k \in Chunks : \A n \in Chunks :
              /\ Frames[k].payload.obj.id = Frames[n].payload.obj.id
              /\ Frames[k].payload.obj.created = Frames[n].payload.obj.created
              /\ Frames[k].payload.obj.model = Frames[n].payload.obj.model

(* A finished stream for a model the registry does not hold, whose last     *)
(* chunks were written in the second after the one in created               *)
C23_Witness ==
    /\ handler = "chat_completions"
    /\ result.kind = "stream"
    /\ Cardinality(Chunks) = 3
    /\ SentModel(handler) = "m1"
    /\ "m1" \notin DOMAIN models.openai
    /\ \A k \in Chunks : Frames[k].payload.obj.model = "m1"
    /\ \A k \in Chunks : Frames[k].payload.obj.created = 0
    /\ UnixTime(clock) = 1


----------------------------------------------------------------------------
(* The client's steps.  The server side of the exchange is the response     *)
(* the call gets: a status and the lines of its body.                       *)
server == <<handler, body, pc, locals, i, tailPos, pending, log, result, clock,
            uuids, models, random>>

(* The consumer starts iterating: session.post(...) is awaited *)
Call ==
    /\ client.pc = "idle"
    /\ \E s \in Statuses : \E f \in Feeds :
          /\ s # 200 => f = <<>>
          /\ client' = [client EXCEPT !.pc = "post", !.status = s, !.feed = f]
    /\ UNCHANGED server

(* The response headers arrived *)
PostOk ==
    /\ client.pc = "post"
    /\ client' = [client EXCEPT !.pc = IF client.status # 200 THEN "text" ELSE "read"]
    /\ UNCHANGED server

(* The connection could not be made, or timed out *)
PostFails ==
    /\ client.pc = "post"
    /\ \E e \in {"ClientConnectorError", "TimeoutError"} :
          client' = stream_ollama_except([client EXCEPT !.failure = e], e)
    /\ UNCHANGED server

(* resp.text() of an error response, then raise aiohttp.ClientError(...) *)
ErrorText ==
    /\ client.pc = "text"
    /\ client' = stream_ollama_except([client EXCEPT !.failure = "status"], "ClientError")
    /\ UNCHANGED server

(* The next line arrived and the loop body ran up to its next suspension *)
ReadLine ==
    /\ client.pc = "read"
    /\ client.feed # <<>>
    /\ LET line == Head(client.feed)
           r == stream_ollama_line(line)
           c == [client EXCEPT !.feed = Tail(@), !.consumed = Append(@, line)]
       IN client' =
            CASE r.act = "continue" -> c
              [] r.act = "warn" -> [c EXCEPT !.stderr = Append(@, "cannot parse line")]
              [] r.act = "raise" -> stream_ollama_except(c, r.exc)
              [] r.act = "break" ->
                    [c EXCEPT !.pc = "ended",
                              !.stdout = IF r.print THEN Append(@, "stream complete")
                                         ELSE @]
              [] r.act = "yield" ->
                    [c EXCEPT !.pc = "yield", !.yielded = Append(@, r.chunk)]
    /\ UNCHANGED server

(* The body ended: the loop is over *)
ReadEof ==
    /\ client.pc = "read"
    /\ client.feed = <<>>
    /\ client' = [client EXCEPT !.pc = "ended"]
    /\ UNCHANGED server

(* The connection failed while the body was being read *)
ReadFails ==
    /\ client.pc = "read"
    /\ \E e \in {"ClientPayloadError", "TimeoutError"} :
          client' = stream_ollama_except([client EXCEPT !.failure = e], e)
    /\ UNCHANGED server

(* The consumer asks for the next chunk *)
AskNext ==
    /\ client.pc = "yield"
    /\ client' = [client EXCEPT !.pc = "read"]
    /\ UNCHANGED server

ClientNext ==
    \/ Call
    \/ PostOk
    \/ PostFails
    \/ ErrorText
    \/ ReadLine
    \/ ReadEof
    \/ ReadFails
    \/ AskNext

ClientSpec == Init /\ [][ClientNext]_vars


----------------------------------------------------------------------------
(* The body of the response, read or not yet *)
AllLines == client.consumed \o client.feed

IsObjectLine(l) == l.kind = "json" /\ l.value.t = "dict"
IsDoneLine(l) == IsObjectLine(l) /\ Get(l.value.d, "done", FALSE)
HasText(l) == IsObjectLine(l) /\ Get(l.value.d, "response", "") # ""

(* The non-empty response values of the JSON lines before the first line    *)
(* with done=true, in arrival order                                         *)
BeforeDone(lines) ==
    LET dones == {k \in 1..Len(lines) : IsDoneLine(lines[k])}
        first == IF dones = {} THEN Len(lines) + 1
                 ELSE CHOOSE k \in dones : \A j \in dones : k <= j
    IN SubSeq(lines, 1, first - 1)
ExpectedChunks(lines) ==
    LET texts == SelectSeq(BeforeDone(lines), HasText)
    IN [k \in 1..Len(texts) |-> texts[k].value.d.response]

(* C24: on a 200 response whose connection does not fail, what the consumer *)
(* has got is at every moment a prefix of the non-empty response values of  *)
(* the JSON lines before the first done=true line, in arrival order, and    *)
(* all of them once the generator has ended; blank lines and lines that are *)
(* no JSON do not end the iteration.                                        *)
C24_YieldsResponsesBeforeDone ==
    (client.status = 200 /\ client.failure = "none") =>
        /\ IsPrefix(client.yielded, ExpectedChunks(AllLines))
        /\ client.pc = "ended" => client.yielded = ExpectedChunks(AllLines)
        /\ (client.pc = "ended" /\ client.feed # <<>>) =>
              IsDoneLine(client.consumed[Len(client.consumed)])

(* The same for bodies whose JSON lines are all objects *)
C24_ObjectBodies ==
    (client.status = 200 /\ client.failure = "none"
        /\ \A k \in 1..Len(AllLines) : AllLines[k] # NumberLine) =>
        /\ IsPrefix(client.yielded, ExpectedChunks(AllLines))
        /\ client.pc = "ended" => client.yielded = ExpectedChunks(AllLines)
        /\ (client.pc = "ended" /\ client.feed # <<>>) =>
              IsDoneLine(client.consumed[Len(client.consumed)])


(* C25: when the server answers with a status other than 200, or the        *)
(* connection fails before or while the body is read, nothing reaches the   *)
(* consumer but the end of the iteration: the generator has ended, no       *)
(* exception propagated, the failure went to stderr only, and the consumer  *)
(* holds the chunks yielded before the failure, all of them chunks a        *)
(* complete stream would have given.                                        *)
C25_FailuresEndTheIteration ==
    /\ client.propagated = "none"
    /\ client.pc # "raised"
    /\ client.failure # "none" =>
          /\ client.pc = "ended"
          /\ client.stderr # <<>>
          /\ client.stdout = <<>>
          /\ IsPrefix(client.yielded, ExpectedChunks(AllLines))
    /\ client.status \notin {0, 200} => client.yielded = <<>>

(* The connection failed after one chunk had been yielded and before the    *)
(* done line was read                                                       *)
C25_Witness ==
    /\ client.failure = "TimeoutError"
    /\ client.pc = "ended"
    /\ client.yielded = <<"a">>
    /\ client.feed # <<>>
    /\ IsDoneLine(client.feed[Len(client.feed)])

C25_WitnessStatus ==
    /\ client.status = 500
    /\ client.failure = "status"
    /\ client.pc = "ended"

====
